---- MODULE Spec2Model ----
(***************************************************************************)
(* Smart Title plugin: model selection (lib/model-selector.ts), the        *)
(* idle-event coordinator and the pure functions of index.ts.              *)
(*                                                                         *)
(* Strings are sequences of characters; "/" is the separator character of  *)
(* a configured model string.  Collaborators (module loading, model        *)
(* resolution, provider listing, session lookup, ...) are awaited calls:   *)
(* each completion is one step whose outcome (a value, or a thrown Error)  *)
(* the environment chooses.                                                *)
(***************************************************************************)
EXTENDS Integers, Sequences, FiniteSets, TLC

(***************************************************************************)
(* Bounds of the model.                                                    *)
(***************************************************************************)
\* longest configured model string drawn as input
MaxConfigLen == 5
\* largest number of providers the registry reports as authenticated
MaxAuthenticated == 2
\* number of idle events the host delivers
MaxIdle == 3
\* largest configured updateThreshold
MaxThreshold == 3
\* most handler invocations and title-update runs the host lets be under way at once
MaxActive == 2
\* longest message history drawn as input of extractSmartContext
MaxMessages == 4
\* largest maxTurns and maxCharsPerMessage drawn as input of formatContextForTitle
MaxTurns == 2
MaxCharsPerMessage == 6
\* longest text and largest maxLength drawn as input of truncate
MaxTextLen == 5
\* most pieces of a raw generated text, and the longest run of letters after them
MaxRawPieces == 4
MaxLineLen == 102

Sep == "/"
Chars == {"a", Sep}

\* a provider or model name that holds no separator, as a string
Str(name) == <<name>>

(***************************************************************************)
(* lib/model-selector.ts: constants                                        *)
(***************************************************************************)
FALLBACK_MODELS ==
    ("openai" :> "gpt-5-mini") @@ ("anthropic" :> "claude-haiku-4-5") @@
    ("google" :> "gemini-2.5-flash") @@ ("deepseek" :> "deepseek-chat") @@
    ("xai" :> "grok-4-fast") @@ ("alibaba" :> "qwen3-coder-flash") @@
    ("zai" :> "glm-4.5-flash") @@ ("opencode" :> "big-pickle")

PROVIDER_PRIORITY ==
    <<"openai", "anthropic", "google", "deepseek", "xai", "alibaba", "zai", "opencode">>

\* provider ids the registry may know: the priority list and nvidia
KnownProviders == {PROVIDER_PRIORITY[i] : i \in 1..Len(PROVIDER_PRIORITY)} \cup {"nvidia"}

\* the answers listProviders() may give (the keys of the returned object)
RegistryAnswers == {ps \in SUBSET KnownProviders : Cardinality(ps) <= MaxAuthenticated}

(***************************************************************************)
(* Values                                                                  *)
(***************************************************************************)
ConfigStrings == UNION {[1..n -> Chars] : n \in 0..MaxConfigLen}

\* configModel?: string
Undefined == [defined |-> FALSE, value |-> <<>>]
Defined(s) == [defined |-> TRUE, value |-> s]
ConfigInputs == {Undefined} \cup {Defined(s) : s \in ConfigStrings}

\* ModelInfo | undefined
NoModel == [defined |-> FALSE, providerID |-> <<>>, modelID |-> <<>>]
ModelInfo(p, m) == [defined |-> TRUE, providerID |-> p, modelID |-> m]

\* no ModelSelectionResult (the call has not returned one)
NoResult == [source |-> "none", modelInfo |-> NoModel, failedModel |-> NoModel]

(***************************************************************************)
(* String and array primitives                                             *)
(***************************************************************************)
\* String.prototype.split(sep), for a one-character separator
RECURSIVE SplitOn(_, _)
SplitOn(s, sep) ==
    IF \A i \in 1..Len(s) : s[i] # sep
    THEN <<s>>
    ELSE LET i == CHOOSE k \in 1..Len(s) : s[k] = sep /\ \A j \in 1..(k - 1) : s[j] # sep
         IN  <<SubSeq(s, 1, i - 1)>> \o SplitOn(SubSeq(s, i + 1, Len(s)), sep)

\* configModel.split('/')
Split(s) == SplitOn(s, Sep)

\* Array.prototype.join(sep)
RECURSIVE JoinWith(_, _)
JoinWith(parts, sep) ==
    IF Len(parts) = 0 THEN <<>>
    ELSE IF Len(parts) = 1 THEN parts[1]
    ELSE parts[1] \o <<sep>> \o JoinWith(Tail(parts), sep)

Join(parts) == JoinWith(parts, Sep)

\* the white space String.prototype.trim() and the regular expression \s strip
WhiteSpace == {" ", "\n"}

RECURSIVE TrimStart(_)
TrimStart(s) ==
    IF Len(s) > 0 /\ Head(s) \in WhiteSpace THEN TrimStart(Tail(s)) ELSE s

RECURSIVE TrimEnd(_)
TrimEnd(s) ==
    IF Len(s) > 0 /\ s[Len(s)] \in WhiteSpace THEN TrimEnd(SubSeq(s, 1, Len(s) - 1)) ELSE s

\* String.prototype.trim()
Trim(s) == TrimEnd(TrimStart(s))

\* the least element of a non-empty set of numbers
Least(S) == CHOOSE j \in S : \A k \in S : j <= k

Substring0Whole(s, n) == s

\* String.prototype.substring(0, n)
Substring0(s, n) == SubSeq(s, 1, IF n < Len(s) THEN n ELSE Len(s))

\* array destructuring: a missing element reads as undefined (the empty string here)
Element(parts, i) == IF i <= Len(parts) THEN parts[i] ELSE <<>>

\* if (configModel): undefined and "" are falsy
Truthy(cfg) == cfg.defined /\ Len(cfg.value) > 0

WellFormedAtLeastOne(parts) == Len(parts) >= 1

\* !(parts.length !== 2)
WellFormed(parts) == Len(parts) = 2


(***************************************************************************)
(* index.ts: pure functions                                                *)
(***************************************************************************)
ExtractTextOnlyWithSynthetic(parts) ==
    LET textParts == SelectSeq(parts, LAMBDA part : part.type = "text")
    IN  Trim(JoinWith([i \in 1..Len(textParts) |-> textParts[i].text], "\n"))

\* extractTextOnly(parts): the text parts that are not synthetic, joined by a
\* newline and trimmed (a part without text contributes the empty string)
ExtractTextOnly(parts) ==
    LET textParts == SelectSeq(parts, LAMBDA part : part.type = "text" /\ ~part.synthetic)
    IN  Trim(JoinWith([i \in 1..Len(textParts) |-> textParts[i].text], "\n"))

NoAssistant == [defined |-> FALSE, first |-> <<>>, last |-> <<>>, time |-> 0]

AssistantSummaryLatestOnly(collected) ==
    [defined |-> TRUE,
     first |-> collected[Len(collected)].text,
     last |-> collected[Len(collected)].text,
     time |-> collected[Len(collected)].time]

\* currentTurn.assistant = { first, last, time } from the collected assistant texts
AssistantSummary(collected) ==
    [defined |-> TRUE,
     first |-> collected[1].text,
     last |-> collected[Len(collected)].text,
     time |-> collected[1].time]

\* let currentTurn: ConversationTurn | null = null
NoCurrentTurn == [open |-> FALSE, user |-> [text |-> <<>>, time |-> 0]]

\* the for loop of extractSmartContext over conversationMessages, and the code
\* after it: turns pushed so far, the open turn, the assistant texts collected
RECURSIVE GroupTurns(_, _, _, _)
GroupTurns(msgs, turns, currentTurn, collected) ==
    IF msgs = <<>>
    THEN IF currentTurn.open
         THEN Append(turns,
                     [user |-> currentTurn.user,
                      assistant |-> IF Len(collected) > 0
                                    THEN AssistantSummary(collected)
                                    ELSE NoAssistant])
         ELSE turns
    ELSE LET msg == Head(msgs) IN
         IF msg.role = "user"
         THEN GroupTurns(Tail(msgs),
                         IF currentTurn.open /\ Len(collected) > 0
                         THEN Append(turns, [user |-> currentTurn.user,
                                             assistant |-> AssistantSummary(collected)])
                         ELSE turns,
                         [open |-> TRUE,
                          user |-> [text |-> ExtractTextOnly(msg.parts), time |-> msg.time]],
                         <<>>)
         ELSE IF msg.role = "assistant"
         THEN LET assistantText == ExtractTextOnly(msg.parts) IN
              GroupTurns(Tail(msgs), turns, currentTurn,
                         IF Len(assistantText) > 0
                         THEN Append(collected, [text |-> assistantText, time |-> msg.time])
                         ELSE collected)
         ELSE GroupTurns(Tail(msgs), turns, currentTurn, collected)

\* extractSmartContext, from the fetched messages on
ExtractSmartContext(messages) ==
    GroupTurns(SelectSeq(messages, LAMBDA msg : msg.role \in {"user", "assistant"}),
               <<>>, NoCurrentTurn, <<>>)

Ellipsis == <<".", ".", ".">>

TruncateNoEllipsis(text, maxLength) == Substring0(text, maxLength)

\* truncate(text, maxLength)
Truncate(text, maxLength) ==
    IF Len(text) <= maxLength THEN text ELSE Substring0(text, maxLength) \o Ellipsis

\* the labels formatContextForTitle puts before the texts
UserLabel == <<"U", "s", "e", "r", ":", " ">>
AssistantLabel == <<"A", "s", "s", "i", "s", "t", "a", "n", "t", ":", " ">>
InitialLabel ==
    <<"A", "s", "s", "i", "s", "t", "a", "n", "t", " ", "(", "i", "n", "i", "t", "i", "a", "l",
      ")", ":", " ">>
FinalLabel ==
    <<"A", "s", "s", "i", "s", "t", "a", "n", "t", " ", "(", "f", "i", "n", "a", "l", ")", ":",
      " ">>

SliceLastAll(turns, n) == turns

\* turns.slice(-n): the last n elements; slice(-0) is slice(0), the whole array
SliceLast(turns, n) ==
    IF n = 0 \/ n >= Len(turns) THEN turns ELSE SubSeq(turns, Len(turns) - n + 1, Len(turns))

\* the lines the loop body of formatContextForTitle pushes for one turn
FormatTurn(turn, maxCharsPerMessage) ==
    <<UserLabel \o Truncate(turn.user.text, maxCharsPerMessage), <<>>>> \o
    (IF turn.assistant.defined
     THEN (IF turn.assistant.first = turn.assistant.last
           THEN <<AssistantLabel \o Truncate(turn.assistant.first, maxCharsPerMessage)>>
           ELSE <<InitialLabel \o Truncate(turn.assistant.first, maxCharsPerMessage),
                  FinalLabel \o Truncate(turn.assistant.last, maxCharsPerMessage)>>)
          \o <<<<>>>>
     ELSE <<>>)

\* the array formatted after the loop over the turns
RECURSIVE FormatTurns(_, _)
FormatTurns(turns, maxCharsPerMessage) ==
    IF turns = <<>> THEN <<>>
    ELSE FormatTurn(Head(turns), maxCharsPerMessage) \o
         FormatTurns(Tail(turns), maxCharsPerMessage)

\* formatContextForTitle(turns, maxTurns, maxCharsPerMessage)
FormatContextForTitle(turns, maxTurns, maxCharsPerMessage) ==
    JoinWith(FormatTurns(SliceLast(turns, maxTurns), maxCharsPerMessage), "\n")

\* the markers of a reasoning block
ThinkOpen == <<"<", "t", "h", "i", "n", "k", ">">>
ThinkClose == <<"<", "/", "t", "h", "i", "n", "k", ">">>

\* the literal lit stands in s at position i
MatchAt(s, i, lit) ==
    /\ i >= 1
    /\ i + Len(lit) - 1 <= Len(s)
    /\ SubSeq(s, i, i + Len(lit) - 1) = lit

\* raw.replace(/<think>[\s\S]*?<\/think>\s*/g, ""): every block from a start
\* marker to the nearest end marker after it, with the white space that follows
RECURSIVE RemoveThink(_)
RemoveThink(s) ==
    LET closes(i) == {j \in (i + Len(ThinkOpen))..Len(s) : MatchAt(s, j, ThinkClose)}
        opens == {i \in 1..Len(s) : MatchAt(s, i, ThinkOpen) /\ closes(i) # {}}
    IN  IF opens = {}
        THEN s
        ELSE LET i == Least(opens)
                 j == Least(closes(i))
             IN  SubSeq(s, 1, i - 1) \o
                 RemoveThink(TrimStart(SubSeq(s, j + Len(ThinkClose), Len(s))))

Untitled == <<"U", "n", "t", "i", "t", "l", "e", "d">>

CleanTitleRaw(raw) == raw

\* cleanTitle(raw)
CleanTitle(raw) ==
    LET split == SplitOn(RemoveThink(raw), "\n")
        lines == [i \in 1..Len(split) |-> Trim(split[i])]
        nonEmpty == {i \in 1..Len(lines) : Len(lines[i]) > 0}
        cleaned == IF nonEmpty = {} THEN Untitled ELSE lines[Least(nonEmpty)]
    IN  IF Len(cleaned) > 100 THEN Substring0(cleaned, 97) \o Ellipsis ELSE cleaned

IsSubagentSessionRethrows(lookup) ==
    CASE lookup = "parent" -> "true"
      [] lookup = "none" -> "false"
      [] lookup = "error" -> "throw"

IsSubagentSessionNever(lookup) == "false"

IsSubagentSessionErrorIsSub(lookup) ==
    CASE lookup = "parent" -> "true"
      [] lookup = "none" -> "false"
      [] lookup = "error" -> "true"

\* isSubagentSession: what the call gives for the outcome of client.session.get
\* ("parent": data.parentID is set, "none": it is not, "error": the call threw)
IsSubagentSession(lookup) ==
    CASE lookup = "parent" -> "true"
      [] lookup = "none" -> "false"
      [] lookup = "error" -> "false"

ThresholdReachedAtLeast(currentCount, threshold) == currentCount >= threshold

\* !(currentCount % config.updateThreshold !== 0)
ThresholdReached(currentCount, threshold) == currentCount % threshold = 0

(***************************************************************************)
(* State                                                                   *)
(***************************************************************************)
VARIABLES
    configModel,       \* selectModel's configModel argument (config.model)
    registry,          \* the providers the auth registry holds as authenticated
    sel,               \* the selectModel call: position, locals, call log, outcome
    updateThreshold,   \* config.updateThreshold
    sessionIdleCount,  \* the Map sessionID -> idle count
    handlers,          \* per session: the event handlers waiting in isSubagentSession
    runs,              \* the updateSessionTitle runs, in order of dispatch
    title,             \* the title the host holds for each session
    eventsLeft,        \* idle events the host has still to deliver
    stats,             \* what has happened so far (see NoStats)
    extraction,        \* a call of extractSmartContext and formatContextForTitle
    truncation,        \* a call of truncate
    sanitization       \* a call of cleanTitle

selVars == <<configModel, registry, sel>>
coordVars == <<updateThreshold, sessionIdleCount, handlers, runs, title, eventsLeft, stats>>
fnVars == <<extraction, truncation, sanitization>>
vars == <<configModel, registry, sel, updateThreshold, sessionIdleCount, handlers, runs,
          title, eventsLeft, stats, extraction, truncation, sanitization>>

(***************************************************************************)
(* selectModel(logger, configModel)                                        *)
(*   sel.pc: "import"          awaiting import('@tarquinen/...')           *)
(*           "resolveConfig"   awaiting getLanguageModel(config pair)      *)
(*           "listProviders"   awaiting listProviders()                    *)
(*           "resolveFallback" awaiting getLanguageModel(fallback pair)    *)
(*           "returned" | "thrown"                                         *)
(*   sel.attempts logs every getLanguageModel call:                        *)
(*           status "pending" while awaited, then "ok" or "fail"           *)
(***************************************************************************)
SelStart ==
    [pc |-> "import",
     importStatus |-> "pending",
     failedModelInfo |-> NoModel,
     listStatus |-> "none",
     providers |-> {},
     index |-> 0,
     attempts |-> <<>>,
     result |-> NoResult,
     error |-> "none"]

\* opencodeAI.getLanguageModel(providerID, modelID) is called
StartAttempt(log, p, m, kind) ==
    Append(log, [providerID |-> p, modelID |-> m, kind |-> kind, status |-> "pending"])

CompleteLastNoAwait(log, ok) == log

\* await: the pending call has resolved (ok) or rejected before the code goes on
CompleteLast(log, ok) ==
    [log EXCEPT ![Len(log)].status = IF ok THEN "ok" ELSE "fail"]

ConfigResultAsFallback(p, m) ==
    [source |-> "fallback", modelInfo |-> ModelInfo(p, m), failedModel |-> ModelInfo(p, m)]

\* return { model, modelInfo: { providerID, modelID }, source: 'config', reason }
ConfigResult(p, m) ==
    [source |-> "config", modelInfo |-> ModelInfo(p, m), failedModel |-> NoModel]

FallbackResultNoFailedModel(p, failed) ==
    [source |-> "fallback",
     modelInfo |-> ModelInfo(Str(p), Str(FALLBACK_MODELS[p])),
     failedModel |-> NoModel]

\* return { model, modelInfo, source: 'fallback', reason, failedModel: failedModelInfo }
FallbackResult(p, failed) ==
    [source |-> "fallback",
     modelInfo |-> ModelInfo(Str(p), Str(FALLBACK_MODELS[p])),
     failedModel |-> failed]

\* if (!providers[providerID]) continue; if (!fallbackModelID) continue
Skipped(ps, p) == p \notin ps \/ p \notin DOMAIN FALLBACK_MODELS

NextCandidateNoAuthCheck(ps, i) ==
    LET c == {j \in (i + 1)..Len(PROVIDER_PRIORITY) :
                 PROVIDER_PRIORITY[j] \in DOMAIN FALLBACK_MODELS}
    IN  IF c = {} THEN 0 ELSE Least(c)

NextCandidateSkipsFirst(ps, i) ==
    LET c == {j \in (i + 2)..Len(PROVIDER_PRIORITY) : ~Skipped(ps, PROVIDER_PRIORITY[j])}
    IN  IF c = {} THEN 0 ELSE Least(c)

\* for (const providerID of PROVIDER_PRIORITY): the next provider after position i
\* that is not skipped; 0 when the loop runs off the end of the list
NextCandidate(ps, i) ==
    LET c == {j \in (i + 1)..Len(PROVIDER_PRIORITY) : ~Skipped(ps, PROVIDER_PRIORITY[j])}
    IN  IF c = {} THEN 0 ELSE Least(c)

\* attempts logged for the provider at position i of the priority list
AttemptsFor(log, i) ==
    {k \in 1..Len(log) : log[k].kind = "fallback" /\ log[k].providerID = Str(PROVIDER_PRIORITY[i])}

ContinueLoopRetriesOnce(s, ps, i) ==
    LET again == i > 0 /\ Cardinality(AttemptsFor(s.attempts, i)) < 2
        j == IF again THEN i ELSE NextCandidate(ps, i)
    IN  IF j = 0
        THEN [s EXCEPT !.pc = "thrown", !.error = "exhausted", !.index = Len(PROVIDER_PRIORITY)]
        ELSE [s EXCEPT !.pc = "resolveFallback", !.index = j,
                       !.attempts = StartAttempt(s.attempts, Str(PROVIDER_PRIORITY[j]),
                                                 Str(FALLBACK_MODELS[PROVIDER_PRIORITY[j]]),
                                                 "fallback")]

\* the fallback loop from position i on, up to its next await or its end
ContinueLoop(s, ps, i) ==
    LET j == NextCandidate(ps, i) IN
    IF j = 0
    THEN [s EXCEPT !.pc = "thrown", !.error = "exhausted", !.index = Len(PROVIDER_PRIORITY)]
    ELSE [s EXCEPT !.pc = "resolveFallback", !.index = j,
                   !.attempts = StartAttempt(s.attempts, Str(PROVIDER_PRIORITY[j]),
                                             Str(FALLBACK_MODELS[PROVIDER_PRIORITY[j]]),
                                             "fallback")]

\* const { OpencodeAI } = await import(...); new OpencodeAI(); if (configModel) {...}
\* the states after the import has settled
ImportSteps(s, cfg) ==
    {[s EXCEPT !.pc = "thrown", !.error = "import", !.importStatus = "fail"]} \cup
    {LET parts == Split(cfg.value) IN
     IF Truthy(cfg) /\ WellFormed(parts)
     THEN [s EXCEPT !.importStatus = "ok", !.pc = "resolveConfig",
                    !.attempts = StartAttempt(s.attempts, Element(parts, 1),
                                              Element(parts, 2), "config")]
     ELSE [s EXCEPT !.importStatus = "ok", !.pc = "listProviders",
                    !.listStatus = "pending"]}

\* try { model = await getLanguageModel(providerID, modelID); return {...} } catch {...}
ConfigResolvedSteps(s) ==
    {LET log == CompleteLast(s.attempts, ok)
         a == s.attempts[Len(s.attempts)]
     IN  IF ok
         THEN [s EXCEPT !.attempts = log, !.pc = "returned",
                        !.result = ConfigResult(a.providerID, a.modelID)]
         ELSE [s EXCEPT !.attempts = log, !.pc = "listProviders",
                        !.failedModelInfo = ModelInfo(a.providerID, a.modelID),
                        !.listStatus = "pending"]
     : ok \in BOOLEAN}

\* const providers = await opencodeAI.listProviders(); (not inside any try)
ListProvidersSteps(s, reg) ==
    {[s EXCEPT !.pc = "thrown", !.error = "listProviders", !.listStatus = "fail"],
     ContinueLoop([s EXCEPT !.listStatus = "ok", !.providers = reg], reg, 0)}

\* try { model = await getLanguageModel(providerID, fallbackModelID); return {...} }
\* catch { continue }
FallbackResolvedSteps(s) ==
    {LET log == CompleteLast(s.attempts, ok) IN
     IF ok
     THEN [s EXCEPT !.attempts = log, !.pc = "returned",
                    !.result = FallbackResult(PROVIDER_PRIORITY[s.index],
                                              s.failedModelInfo)]
     ELSE ContinueLoop([s EXCEPT !.attempts = log], s.providers, s.index)
     : ok \in BOOLEAN}

\* every way the call can go on from s to its next await, return or throw
SelSteps(s, cfg, reg) ==
    CASE s.pc = "import" -> ImportSteps(s, cfg)
      [] s.pc = "resolveConfig" -> ConfigResolvedSteps(s)
      [] s.pc = "listProviders" -> ListProvidersSteps(s, reg)
      [] s.pc = "resolveFallback" -> FallbackResolvedSteps(s)
      [] OTHER -> {}

\* every way a call that stands at s can end (returned or thrown)
RECURSIVE SelOutcomes(_, _, _)
SelOutcomes(s, cfg, reg) ==
    IF s.pc \in {"returned", "thrown"}
    THEN {s}
    ELSE UNION {SelOutcomes(t, cfg, reg) : t \in SelSteps(s, cfg, reg)}

ImportDone ==
    /\ sel.pc = "import"
    /\ sel' \in ImportSteps(sel, configModel)
    /\ UNCHANGED <<configModel, registry, coordVars, fnVars>>

ConfigResolved ==
    /\ sel.pc = "resolveConfig"
    /\ sel' \in ConfigResolvedSteps(sel)
    /\ UNCHANGED <<configModel, registry, coordVars, fnVars>>

ListProvidersDone ==
    /\ sel.pc = "listProviders"
    /\ sel' \in ListProvidersSteps(sel, registry)
    /\ UNCHANGED <<configModel, registry, coordVars, fnVars>>

FallbackResolved ==
    /\ sel.pc = "resolveFallback"
    /\ sel' \in FallbackResolvedSteps(sel)
    /\ UNCHANGED <<configModel, registry, coordVars, fnVars>>

\* the sessions of the host: a session and a subagent session started from it
Sessions == {"ses_main", "ses_child"}
ParentID == ("ses_child" :> "ses_main")

\* a Map without entries
EmptyMap == [k \in {} |-> 0]
InitialTitle == <<"N", "e", "w">>

\* what has happened so far, per session: idle events delivered, lookups that
\* reported a parent, runs dispatched; and the handler invocations that threw
NoStats ==
    [delivered |-> [s \in Sessions |-> 0],
     parentSeen |-> [s \in Sessions |-> 0],
     triggered |-> [s \in Sessions |-> 0],
     thrown |-> 0]

\* no call of the pure functions is under way
NoCall == [pc |-> "none"]

SelInit ==
    /\ configModel \in ConfigInputs
    /\ registry \in RegistryAnswers
    /\ sel = SelStart
    /\ updateThreshold = 1
    /\ sessionIdleCount = EmptyMap
    /\ handlers = [s \in Sessions |-> 0]
    /\ runs = <<>>
    /\ title = [s \in Sessions |-> InitialTitle]
    /\ eventsLeft = 0
    /\ stats = NoStats
    /\ extraction = NoCall
    /\ truncation = NoCall
    /\ sanitization = NoCall

SelNext == ImportDone \/ ConfigResolved \/ ListProvidersDone \/ FallbackResolved

\* one selectModel call, for every configured string and every registry content
SpecSelect == SelInit /\ [][SelNext]_vars

\* the same, with every awaited call (import, getLanguageModel, listProviders)
\* settling at some time
SpecSelectFair == SelInit /\ [][SelNext]_vars /\ WF_vars(SelNext)


(***************************************************************************)
(* index.ts: the plugin's event handler and updateSessionTitle             *)
(*   handlers[h].pc: "lookup"   awaiting isSubagentSession (session.get)   *)
(*                   "returned" | "threw"                                  *)
(*   runs[r].pc:     "messages" awaiting client.session.messages           *)
(*                   "select"   awaiting selectModel                       *)
(*                   "toast"    awaiting client.tui.showToast              *)
(*                   "generate" awaiting import('ai') and generateText     *)
(*                   "update"   awaiting client.session.update             *)
(*                   "done"                                                *)
(*   A run shares no state with anything else between its awaits, so the   *)
(*   awaits inside selectModel are taken as one step here, as are the lazy *)
(*   import of 'ai' and the generateText call.                             *)
(***************************************************************************)
\* the message histories client.session.messages may return
TextPart(t) == [type |-> "text", text |-> t, synthetic |-> FALSE]
PipelineHistories ==
    {<<>>,
     <<[role |-> "system", time |-> 1, parts |-> <<TextPart(<<"s">>)>>]>>,
     <<[role |-> "user", time |-> 1, parts |-> <<TextPart(<<"q">>)>>]>>,
     <<[role |-> "user", time |-> 1, parts |-> <<TextPart(<<"q">>)>>],
       [role |-> "assistant", time |-> 2, parts |-> <<TextPart(<<"r">>)>>]>>}

\* the texts generateText may return
GeneratedTexts ==
    {<<"A">>, ThinkOpen \o <<"x">> \o ThinkClose \o <<"\n", "B", "\n", "C">>}

\* the configured models and registry contents of the plugin's runs
PipelineConfigs == {Undefined, Defined(<<"a", Sep, "a">>)}
PipelineRegistries == {{"anthropic"}}

\* sessionIdleCount.get(sessionId) || 0
GetOrZero(map, k) == IF k \in DOMAIN map THEN map[k] ELSE 0

MapSetKeepsOld(map, k, v) ==
    [x \in DOMAIN map \cup {k} |-> IF x \in DOMAIN map THEN map[x] ELSE v]

MapSetOnly(map, k, v) == [x \in {k} |-> v]

\* sessionIdleCount.set(sessionId, currentCount)
MapSet(map, k, v) == [x \in DOMAIN map \cup {k} |-> IF x = k THEN v ELSE map[x]]

\* what client.session.get may do for a session
LookupOutcomes(s) == {IF s \in DOMAIN ParentID THEN "parent" ELSE "none", "error"}

\* the sequence without its element at position i
RemoveAt(seq, i) == SubSeq(seq, 1, i - 1) \o SubSeq(seq, i + 1, Len(seq))

\* updateSessionTitle(client, sessionId, logger, config) up to its first await
NewRun(s) ==
    [session |-> s, pc |-> "messages", turnCount |-> 0, selection |-> NoResult,
     toast |-> "none", newTitle |-> <<>>, end |-> "running", failedAt |-> "none"]

\* where a failure of a stage ends the run: the catch of generateTitleFromContext
\* returns null and updateSessionTitle returns ("noTitle"); the catch of
\* updateSessionTitle logs and returns ("caught")
RunEndOnFailure(stage) ==
    IF stage \in {"select", "toast", "generate"} THEN "noTitle" ELSE "caught"

\* a run that has returned: its locals are gone, how it ended is kept
Ended(run, end, stage) ==
    [NewRun(run.session) EXCEPT !.pc = "done", !.end = end, !.failedAt = stage]

FailGoesOn(run, stage) == [run EXCEPT !.pc = "update", !.failedAt = stage]

\* a stage of the run has thrown: the catch it ends at logs, and the run returns
Fail(run, stage) == Ended(run, RunEndOnFailure(stage), stage)

\* if (failedModel)
ToastNeeded(result) == result.failedModel.defined

AfterToastFailureEnds(run, ok) ==
    IF ok THEN [run EXCEPT !.pc = "generate", !.toast = "shown"] ELSE Fail(run, "toast")

\* try { await client.tui.showToast(...) } catch { log }: the run goes on either way
AfterToast(run, ok) ==
    [run EXCEPT !.pc = "generate", !.toast = IF ok THEN "shown" ELSE "failed"]

\* handler invocations and runs that have not finished
RECURSIVE Sum(_, _)
Sum(f, S) == IF S = {} THEN 0 ELSE LET x == CHOOSE x \in S : TRUE IN f[x] + Sum(f, S \ {x})
Active == Sum(handlers, Sessions) + Len(runs)

\* the host delivers a session.status event with status.type idle: the handler
\* runs up to await isSubagentSession(...), where it waits for client.session.get
IdleEvent ==
    /\ eventsLeft > 0
    /\ Active < MaxActive
    /\ \E s \in Sessions :
         /\ handlers' = [handlers EXCEPT ![s] = @ + 1]
         /\ stats' = [stats EXCEPT !.delivered[s] = @ + 1]
    /\ eventsLeft' = eventsLeft - 1
    /\ UNCHANGED <<selVars, fnVars, updateThreshold, sessionIdleCount, runs, title>>

\* the host delivers any other event: the handler returns at once
OtherEvent ==
    /\ UNCHANGED vars

HandlerAwaitsRun(pending, dispatched) == IF dispatched THEN pending ELSE pending - 1

\* the pending handlers of a session once one of them has gone on: it returns
\* at one of its return statements or at the end of the handler, and after
\* updateSessionTitle(...).catch(...) nothing awaits the promise of the run
HandlerReturns(pending, dispatched) == pending - 1

\* client.session.get settles for a handler of session s: the rest of the
\* handler, which holds no await, runs and the handler returns (or throws)
LookupDone ==
    \E s \in Sessions :
      /\ handlers[s] > 0
      /\ \E lookup \in LookupOutcomes(s) :
           LET sub == IsSubagentSession(lookup)
               currentCount == GetOrZero(sessionIdleCount, s) + 1
               counted == sub = "false"
               dispatched == counted /\ ThresholdReached(currentCount, updateThreshold)
           IN  /\ sessionIdleCount' = IF counted
                                      THEN MapSet(sessionIdleCount, s, currentCount)
                                      ELSE sessionIdleCount
               /\ runs' = IF dispatched THEN Append(runs, NewRun(s)) ELSE runs
               /\ stats' = [stats EXCEPT
                              !.parentSeen[s] = IF lookup = "parent" THEN @ + 1 ELSE @,
                              !.triggered[s] = IF dispatched THEN @ + 1 ELSE @,
                              !.thrown = IF sub = "throw" THEN @ + 1 ELSE @]
               /\ handlers' = [handlers EXCEPT ![s] = HandlerReturns(@, dispatched)]
      /\ UNCHANGED <<selVars, fnVars, updateThreshold, title, eventsLeft>>

NoTurnsNever(turns) == FALSE

\* if (turns.length === 0)
NoTurns(turns) == Len(turns) = 0

\* client.session.messages settles: extractSmartContext, the zero-turn check,
\* formatContextForTitle, and generateTitleFromContext up to await selectModel
MessagesDone ==
    \E r \in 1..Len(runs) :
      /\ runs[r].pc = "messages"
      /\ \/ runs' = [runs EXCEPT ![r] = Fail(@, "messages")]
         \/ \E messages \in PipelineHistories :
              LET turns == ExtractSmartContext(messages) IN
              IF NoTurns(turns)
              THEN runs' = [runs EXCEPT ![r] = Ended(@, "noTurns", "none")]
              ELSE runs' = [runs EXCEPT ![r].pc = "select", ![r].turnCount = Len(turns)]
      /\ UNCHANGED <<selVars, fnVars, updateThreshold, sessionIdleCount, handlers, title,
                     eventsLeft, stats>>

\* selectModel settles: a throw is caught and gives a null title; a result with a
\* failedModel leads to the toast, any other result to the generation
SelectDone ==
    \E r \in 1..Len(runs) :
      /\ runs[r].pc = "select"
      /\ \E o \in SelOutcomes(SelStart, configModel, registry) :
           IF o.pc = "thrown"
           THEN runs' = [runs EXCEPT ![r] = Fail(@, "select")]
           ELSE IF ToastNeeded(o.result)
           THEN runs' = [runs EXCEPT ![r].pc = "toast", ![r].selection = o.result,
                                     ![r].toast = "pending"]
           ELSE runs' = [runs EXCEPT ![r].pc = "generate", ![r].selection = o.result]
      /\ UNCHANGED <<selVars, fnVars, updateThreshold, sessionIdleCount, handlers, title,
                     eventsLeft, stats>>

\* client.tui.showToast settles: a failure is logged and the run goes on
ToastDone ==
    \E r \in 1..Len(runs) :
      /\ runs[r].pc = "toast"
      /\ \E ok \in BOOLEAN : runs' = [runs EXCEPT ![r] = AfterToast(@, ok)]
      /\ UNCHANGED <<selVars, fnVars, updateThreshold, sessionIdleCount, handlers, title,
                     eventsLeft, stats>>

\* import('ai') and generateText settle: cleanTitle, the null check of
\* updateSessionTitle, and the call of client.session.update
GenerateDone ==
    \E r \in 1..Len(runs) :
      /\ runs[r].pc = "generate"
      /\ \/ runs' = [runs EXCEPT ![r] = Fail(@, "generate")]
         \/ \E text \in GeneratedTexts :
              LET newTitle == CleanTitle(text) IN
              IF Len(newTitle) = 0
              THEN runs' = [runs EXCEPT ![r] = Ended(@, "noTitle", "none")]
              ELSE runs' = [runs EXCEPT ![r].pc = "update", ![r].newTitle = newTitle]
      /\ UNCHANGED <<selVars, fnVars, updateThreshold, sessionIdleCount, handlers, title,
                     eventsLeft, stats>>

\* client.session.update settles: the host has applied the title, or the call failed
UpdateDone ==
    \E r \in 1..Len(runs) :
      /\ runs[r].pc = "update"
      /\ \/ /\ runs' = [runs EXCEPT ![r] = Ended(@, "updated", "none")]
            /\ title' = [title EXCEPT ![runs[r].session] = runs[r].newTitle]
         \/ /\ runs' = [runs EXCEPT ![r] = Fail(@, "update")]
            /\ title' = title
      /\ UNCHANGED <<selVars, fnVars, updateThreshold, sessionIdleCount, handlers, eventsLeft, stats>>

\* the promise of a finished updateSessionTitle call settles; nothing awaits it,
\* and the .catch attached to it by the handler has nothing to do
RunSettled ==
    \E r \in 1..Len(runs) :
      /\ runs[r].pc = "done"
      /\ runs' = RemoveAt(runs, r)
      /\ UNCHANGED <<selVars, fnVars, updateThreshold, sessionIdleCount, handlers, title,
                     eventsLeft, stats>>

Init ==
    /\ configModel \in PipelineConfigs
    /\ registry \in PipelineRegistries
    /\ sel = SelStart
    /\ updateThreshold \in 1..MaxThreshold
    /\ sessionIdleCount = EmptyMap
    /\ handlers = [s \in Sessions |-> 0]
    /\ runs = <<>>
    /\ title = [s \in Sessions |-> InitialTitle]
    /\ eventsLeft = MaxIdle
    /\ stats = NoStats
    /\ extraction = NoCall
    /\ truncation = NoCall
    /\ sanitization = NoCall

Next ==
    \/ IdleEvent
    \/ OtherEvent
    \/ LookupDone
    \/ MessagesDone
    \/ SelectDone
    \/ ToastDone
    \/ GenerateDone
    \/ UpdateDone
    \/ RunSettled

\* the plugin under the events of its host
Spec == Init /\ [][Next]_vars

(***************************************************************************)
(* index.ts: the pure functions, each applied to inputs drawn at the start *)
(***************************************************************************)
\* the concatenation of a sequence of strings
RECURSIVE Concat(_)
Concat(pieces) == IF pieces = <<>> THEN <<>> ELSE Head(pieces) \o Concat(Tail(pieces))

\* the messages a history is drawn from: role and parts
MessageKinds ==
    {[role |-> "user", parts |-> <<TextPart(<<"q">>)>>],
     [role |-> "user", parts |-> <<TextPart(UserLabel \o <<"x">>)>>],
     [role |-> "assistant", parts |-> <<TextPart(<<"r">>)>>],
     [role |-> "assistant", parts |-> <<TextPart(<<"r", "e", "p", "l", "y">>)>>],
     [role |-> "assistant",
      parts |-> <<[type |-> "text", text |-> <<"s">>, synthetic |-> TRUE],
                  [type |-> "tool", text |-> <<>>, synthetic |-> FALSE],
                  TextPart(<<" ">>)>>],
     [role |-> "system", parts |-> <<TextPart(<<"s">>)>>]}

\* the histories client.session.messages returns: time.created grows with the position
Histories ==
    UNION {{[i \in 1..n |-> [role |-> kinds[i].role, time |-> i, parts |-> kinds[i].parts]] :
               kinds \in [1..n -> MessageKinds]} : n \in 0..MaxMessages}

CharLimits == {2, MaxCharsPerMessage}

ExtractionInit ==
    /\ extraction \in {[pc |-> "called", messages |-> h, maxTurns |-> n,
                        maxCharsPerMessage |-> c, turns |-> <<>>, context |-> <<>>] :
                           h \in Histories, n \in 0..MaxTurns, c \in CharLimits}
    /\ truncation = NoCall
    /\ sanitization = NoCall
    /\ configModel = Undefined
    /\ registry = {}
    /\ sel = SelStart
    /\ updateThreshold = 1
    /\ sessionIdleCount = EmptyMap
    /\ handlers = [s \in Sessions |-> 0]
    /\ runs = <<>>
    /\ title = [s \in Sessions |-> InitialTitle]
    /\ eventsLeft = 0
    /\ stats = NoStats

\* const turns = await extractSmartContext(...); if (turns.length === 0) return
ExtractSmartContextReturns ==
    /\ extraction.pc = "called"
    /\ LET turns == ExtractSmartContext(extraction.messages) IN
       extraction' = [extraction EXCEPT !.turns = turns,
                                        !.pc = IF Len(turns) = 0 THEN "noTurns" ELSE "extracted"]
    /\ UNCHANGED <<selVars, coordVars, truncation, sanitization>>

\* const context = formatContextForTitle(turns, maxTurns, maxCharsPerMessage)
FormatContextForTitleReturns ==
    /\ extraction.pc = "extracted"
    /\ extraction' =
           [extraction EXCEPT !.pc = "formatted",
                              !.context = FormatContextForTitle(extraction.turns,
                                                                extraction.maxTurns,
                                                                extraction.maxCharsPerMessage)]
    /\ UNCHANGED <<selVars, coordVars, truncation, sanitization>>

ExtractionNext == ExtractSmartContextReturns \/ FormatContextForTitleReturns

\* extractSmartContext and formatContextForTitle on every history and limit
SpecContext == ExtractionInit /\ [][ExtractionNext]_vars

TruncateTexts == UNION {[1..n -> {"a", "b"}] : n \in 0..MaxTextLen}

TruncateInit ==
    /\ truncation \in {[pc |-> "called", text |-> t, maxLength |-> n, result |-> <<>>] :
                          t \in TruncateTexts, n \in 0..(MaxTextLen + 1)}
    /\ extraction = NoCall
    /\ sanitization = NoCall
    /\ configModel = Undefined
    /\ registry = {}
    /\ sel = SelStart
    /\ updateThreshold = 1
    /\ sessionIdleCount = EmptyMap
    /\ handlers = [s \in Sessions |-> 0]
    /\ runs = <<>>
    /\ title = [s \in Sessions |-> InitialTitle]
    /\ eventsLeft = 0
    /\ stats = NoStats

TruncateReturns ==
    /\ truncation.pc = "called"
    /\ truncation' = [truncation EXCEPT !.pc = "returned",
                                        !.result = Truncate(truncation.text,
                                                            truncation.maxLength)]
    /\ UNCHANGED <<selVars, coordVars, extraction, sanitization>>

\* truncate on every text and length
SpecTruncate == TruncateInit /\ [][TruncateReturns]_vars

\* the pieces a raw generated text is put together from
RawPieces == {ThinkOpen, ThinkClose, <<"x">>, <<"\n">>, <<" ">>}

\* n letters in a row
Letters(n) == [i \in 1..n |-> "y"]

\* no run of letters, and the runs around the length at which cleanTitle cuts
LetterRuns == {0} \cup {n \in 1..MaxLineLen : n >= 97}

RawTexts ==
    {Concat(pieces) \o Letters(n) :
        pieces \in UNION {[1..k -> RawPieces] : k \in 0..MaxRawPieces}, n \in LetterRuns}

SanitizationInit ==
    /\ sanitization \in {[pc |-> "called", raw |-> t, title |-> <<>>] : t \in RawTexts}
    /\ extraction = NoCall
    /\ truncation = NoCall
    /\ configModel = Undefined
    /\ registry = {}
    /\ sel = SelStart
    /\ updateThreshold = 1
    /\ sessionIdleCount = EmptyMap
    /\ handlers = [s \in Sessions |-> 0]
    /\ runs = <<>>
    /\ title = [s \in Sessions |-> InitialTitle]
    /\ eventsLeft = 0
    /\ stats = NoStats

\* const title = cleanTitle(result.text)
CleanTitleReturns ==
    /\ sanitization.pc = "called"
    /\ sanitization' = [sanitization EXCEPT !.pc = "returned",
                                            !.title = CleanTitle(sanitization.raw)]
    /\ UNCHANGED <<selVars, coordVars, extraction, truncation>>

\* cleanTitle on every raw text
SpecSanitize == SanitizationInit /\ [][CleanTitleReturns]_vars

(***************************************************************************)
(* Claims about the event handler (checked under Spec)                     *)
(***************************************************************************)
IdleCount(s) == GetOrZero(sessionIdleCount, s)

\* C1: for a threshold T >= 1 the title-update pipeline is triggered exactly on
\* the idle events of a session whose ordinal k satisfies k mod T = 0: after k
\* counted idle events the session has had k div T runs dispatched (one more
\* exactly when the count reaches a multiple of T), and every idle event of a
\* session without parent is counted once its handler has gone on.
C1_TriggeredOnMultiplesOfThreshold ==
    \A s \in Sessions :
        /\ stats.triggered[s] = IdleCount(s) \div updateThreshold
        /\ s \notin DOMAIN ParentID => IdleCount(s) + handlers[s] = stats.delivered[s]

C1_Witness ==
    /\ updateThreshold = 3
    /\ stats.delivered["ses_main"] = 3
    /\ IdleCount("ses_main") = 3
    /\ stats.triggered["ses_main"] = 1

\* the unfinished and finished-but-unsettled runs of a session
RunsOf(s) == {r \in 1..Len(runs) : runs[r].session = s}

\* C2: an idle event whose parent lookup reports a sub-session is a no-op: it
\* is not counted (the counter counts exactly the delivered events whose
\* lookup did not report a parent), and a session whose events were all
\* reported as sub-session events has no counter entry, no run and its title
\* untouched.
C2_SubagentEventIsNoOp ==
    \A s \in Sessions :
        /\ IdleCount(s) + stats.parentSeen[s] + handlers[s] = stats.delivered[s]
        /\ stats.parentSeen[s] + handlers[s] = stats.delivered[s] =>
               /\ s \notin DOMAIN sessionIdleCount
               /\ stats.triggered[s] = 0
               /\ RunsOf(s) = {}
               /\ title[s] = InitialTitle

C2_Witness ==
    /\ stats.parentSeen["ses_child"] = 2
    /\ handlers["ses_child"] = 0
    /\ "ses_child" \notin DOMAIN sessionIdleCount
    /\ title["ses_main"] # InitialTitle

\* C3: the idle event handler and the run it dispatches never propagate a
\* failure to the host: no handler invocation throws, and a run in which a
\* collaborator call failed has ended, at the catch of generateTitleFromContext
\* (no title) or of updateSessionTitle, while a failed notification lets the
\* run go on.
C3_NothingPropagatesToHost ==
    /\ stats.thrown = 0
    /\ \A r \in 1..Len(runs) :
           /\ runs[r].end \in {"running", "noTurns", "noTitle", "caught", "updated"}
           /\ runs[r].failedAt # "none" =>
                  runs[r].pc = "done" /\ runs[r].end \in {"noTitle", "caught"}
           /\ runs[r].toast = "failed" => runs[r].pc \in {"generate", "update"}

C3_Witness ==
    /\ "ses_child" \in DOMAIN sessionIdleCount
    /\ \E r \in 1..Len(runs) :
           /\ runs[r].session = "ses_child"
           /\ runs[r].failedAt = "update"
    /\ \E r \in 1..Len(runs) :
           /\ runs[r].session = "ses_main"
           /\ runs[r].toast = "failed"

\* C18: a run in which model selection is exhausted, or in which message
\* retrieval, generation or any other stage fails, never calls
\* client.session.update: a run stands at that call only after every stage
\* before it has succeeded, the title of a session changes only when such a call
\* succeeds, and a run that ends in any other way leaves every title as it was.
C18_FailedRunLeavesTitle ==
    /\ [](\A r \in 1..Len(runs) :
              runs[r].pc = "update" =>
                  /\ runs[r].failedAt = "none"
                  /\ runs[r].selection.source # "none"
                  /\ Len(runs[r].newTitle) > 0)
    /\ [][/\ \A s \in Sessions :
                 title'[s] # title[s] =>
                     \E r \in 1..Len(runs) :
                         /\ runs[r].session = s
                         /\ runs[r].pc = "update"
                         /\ Len(runs') = Len(runs)
                         /\ runs'[r].end = "updated"
                         /\ title'[s] = runs[r].newTitle
          /\ \A r \in 1..Len(runs) :
                 (/\ Len(runs') = Len(runs)
                  /\ runs[r].pc # "done"
                  /\ runs'[r].pc = "done"
                  /\ runs'[r].end # "updated") =>
                     /\ title' = title
                     /\ runs[r].pc = "update" <=> runs'[r].failedAt = "update"]_vars

C18_Witness ==
    \E r \in 1..Len(runs) :
        /\ runs[r].pc = "done"
        /\ runs[r].failedAt = "select"
        /\ title[runs[r].session] # InitialTitle

\* C19: the user notification is attempted if and only if the selection result
\* carries a failedModel, and a failure of the notification does not end or
\* change the run: no run fails at the notification, and after a failed one the
\* run goes on to the generation and the title update with the same selection.
C19_ToastIffFailedModel ==
    \A r \in 1..Len(runs) :
        /\ runs[r].failedAt # "toast"
        /\ runs[r].pc \in {"toast", "generate", "update"} =>
               /\ runs[r].toast # "none" <=> runs[r].selection.failedModel.defined
               /\ runs[r].toast = "pending" <=> runs[r].pc = "toast"
               /\ runs[r].selection.source # "none"

C19_Witness ==
    /\ \E r \in 1..Len(runs) :
           /\ runs[r].pc = "update"
           /\ runs[r].toast = "failed"
           /\ Len(runs[r].newTitle) > 0
    /\ \E r \in 1..Len(runs) :
           /\ runs[r].pc = "update"
           /\ runs[r].toast = "none"

\* C20: when the parent-session lookup fails, the session is treated as not being
\* a sub-session: every handler that goes on after a lookup that did not report
\* a parent (for a session with a parent: a lookup that failed) increments the
\* counter by one and dispatches a run exactly when the new count is a multiple
\* of the threshold.
C20_LookupFailureCountsAsNoParent ==
    [][\A s \in Sessions :
           (handlers'[s] < handlers[s] /\ stats'.parentSeen[s] = stats.parentSeen[s]) =>
               /\ GetOrZero(sessionIdleCount', s) = IdleCount(s) + 1
               /\ Len(runs') = Len(runs) + 1 <=>
                      GetOrZero(sessionIdleCount', s) % updateThreshold = 0
               /\ Len(runs') > Len(runs) =>
                      /\ runs'[Len(runs')].session = s
                      /\ runs'[Len(runs')].pc = "messages"]_vars

C20_Witness ==
    /\ updateThreshold = 2
    /\ IdleCount("ses_child") = 2
    /\ stats.triggered["ses_child"] = 1
    /\ stats.parentSeen["ses_child"] = 1

\* the steps a run can take from one await to the next, or to its end
StageOrder ==
    {<<"messages", "select">>, <<"messages", "done">>,
     <<"select", "toast">>, <<"select", "generate">>, <<"select", "done">>,
     <<"toast", "generate">>,
     <<"generate", "update">>, <<"generate", "done">>,
     <<"update", "done">>}

\* a title as cleanTitle leaves it: one non-empty trimmed line of at most 100
\* characters without a paired reasoning block
Sanitized(t) ==
    /\ Len(t) >= 1
    /\ Len(t) <= 100
    /\ \A i \in 1..Len(t) : t[i] # "\n"
    /\ Trim(t) = t
    /\ RemoveThink(t) = t

\* C23: within one run the stages occur in the fixed order message retrieval and
\* extraction, formatting, model selection, (optional notification), generation,
\* sanitization, title update; client.session.update is called at most once per
\* run, only after the generation has succeeded, and with the sanitized title.
C23_StagesInOrder ==
    /\ [](\A r \in 1..Len(runs) :
              /\ runs[r].pc \in {"toast", "generate", "update"} =>
                     runs[r].selection.source # "none"
              /\ runs[r].pc = "update" =>
                     /\ Sanitized(runs[r].newTitle)
                     /\ runs[r].end = "running")
    /\ [][/\ \A r \in 1..Len(runs) :
                 (Len(runs') >= Len(runs) /\ runs'[r].pc # runs[r].pc) =>
                     <<runs[r].pc, runs'[r].pc>> \in StageOrder
          /\ \A r \in (Len(runs) + 1)..Len(runs') : runs'[r].pc = "messages"
          /\ \A s \in Sessions :
                 title'[s] # title[s] =>
                     \E r \in 1..Len(runs) :
                         /\ runs[r].session = s
                         /\ runs[r].pc = "update"
                         /\ title'[s] = runs[r].newTitle]_vars

C23_Witness ==
    /\ \E r \in 1..Len(runs) :
           /\ runs[r].pc = "update"
           /\ runs[r].toast = "shown"
           /\ runs[r].newTitle = <<"B">>
    /\ title["ses_main"] = <<"A">>

\* C24: when extraction yields zero turns the run stops there: only a run with at
\* least one turn goes on to the model selection, the notification, the
\* generation and the title update, and a run that ends for lack of turns ends
\* from the message retrieval, with every title left as it was.
C24_ZeroTurnsStopsRun ==
    /\ [](\A r \in 1..Len(runs) :
              runs[r].pc \in {"select", "toast", "generate", "update"} =>
                  runs[r].turnCount > 0)
    /\ [][\A r \in 1..Len(runs) :
              (Len(runs') = Len(runs) /\ runs[r].end # "noTurns" /\ runs'[r].end = "noTurns") =>
                  /\ runs[r].pc = "messages"
                  /\ runs'[r].pc = "done"
                  /\ runs'[r].selection = NoResult
                  /\ runs'[r].toast = "none"
                  /\ title' = title]_vars

C24_Witness ==
    \E r \in 1..Len(runs) :
        /\ runs[r].pc = "done"
        /\ runs[r].end = "noTurns"
        /\ title[runs[r].session] = InitialTitle

\* C25: a session's idle counter changes only by +1, in the increment step of an
\* idle event of that same session whose lookup did not report a parent: it is
\* never decreased, reset or removed, not changed by idle events of other
\* sessions, and not changed by any step of a run, whether the run succeeds or
\* fails.
C25_CounterChangesOnlyByIncrement ==
    [][/\ DOMAIN sessionIdleCount \subseteq DOMAIN sessionIdleCount'
       /\ \A s \in Sessions :
              GetOrZero(sessionIdleCount', s) # IdleCount(s) =>
                  /\ GetOrZero(sessionIdleCount', s) = IdleCount(s) + 1
                  /\ handlers'[s] = handlers[s] - 1
                  /\ stats'.parentSeen[s] = stats.parentSeen[s]
                  /\ \A t \in Sessions \ {s} :
                         GetOrZero(sessionIdleCount', t) = IdleCount(t)
       /\ handlers' = handlers => sessionIdleCount' = sessionIdleCount]_vars

C25_Witness ==
    /\ IdleCount("ses_main") = 2
    /\ IdleCount("ses_child") = 1
    /\ \E r \in 1..Len(runs) : runs[r].pc = "done" /\ runs[r].failedAt = "generate"

\* C26: the modulo-threshold semantics hold under overlapping idle events of one
\* session: while N handlers of a session wait for their lookup no increment is
\* missing, a handler that goes on while others still wait counts one more than
\* the handler before it (the counts observed are 1..N) and dispatches a run
\* exactly at the multiples of the threshold; once the N handlers of a session
\* without parent have gone on the counter is N and floor(N / threshold) runs
\* have been dispatched.
C26_OverlappingHandlersCountOnce ==
    /\ [](\A s \in Sessions \ DOMAIN ParentID :
              /\ IdleCount(s) + handlers[s] = stats.delivered[s]
              /\ handlers[s] = 0 =>
                     stats.triggered[s] = stats.delivered[s] \div updateThreshold)
    /\ [][\A s \in Sessions :
              (/\ handlers[s] >= 2
               /\ handlers'[s] = handlers[s] - 1
               /\ stats'.parentSeen[s] = stats.parentSeen[s]) =>
                  /\ GetOrZero(sessionIdleCount', s) = IdleCount(s) + 1
                  /\ stats'.triggered[s] =
                         GetOrZero(sessionIdleCount', s) \div updateThreshold]_vars

\* two handlers of the session wait for their lookup at once, after one has counted
C26_Witness ==
    /\ updateThreshold = 2
    /\ handlers["ses_main"] = 2
    /\ IdleCount("ses_main") = 1
    /\ stats.triggered["ses_main"] = 0

\* a run that has not returned
InFlight(run) == run.pc # "done"

\* C27: the idle handler returns without waiting for the run it dispatched: in
\* the step that dispatches a run the handler is gone while the run is at its
\* first await; and whatever runs are in flight, a handler whose lookup is
\* pending can go on, count its event and, at a multiple of the threshold,
\* dispatch a run of its own.
C27_HandlerDoesNotWaitForRun ==
    /\ [](\A s \in Sessions :
              handlers[s] > 0 =>
                  ENABLED (/\ LookupDone
                           /\ handlers'[s] = handlers[s] - 1
                           /\ GetOrZero(sessionIdleCount', s) = IdleCount(s) + 1
                           /\ ThresholdReached(IdleCount(s) + 1, updateThreshold) =>
                                  /\ Len(runs') = Len(runs) + 1
                                  /\ runs'[Len(runs')] = NewRun(s)))
    /\ [][Len(runs') = Len(runs) + 1 =>
              LET run == runs'[Len(runs')] IN
              /\ InFlight(run)
              /\ run.pc = "messages"
              /\ handlers'[run.session] = handlers[run.session] - 1]_vars

\* two runs of one session are in flight at once and no handler is pending: the
\* second event was counted and dispatched its run while the first run ran
C27_Witness ==
    /\ updateThreshold = 1
    /\ Len(runs) = 2
    /\ \A r \in 1..2 : runs[r].session = "ses_main" /\ InFlight(runs[r])
    /\ runs[1].pc = "messages"
    /\ \A s \in Sessions : handlers[s] = 0
    /\ IdleCount("ses_main") = 2

\* C28: overlapping runs of one session apply their titles in trigger order: no
\* run applies its title when a run of the same session that was triggered after
\* it has already applied its own. (runs holds the runs in the order of their
\* dispatch; a run that has returned stays in it until its promise settles.)
C28_TitlesAppliedInTriggerOrder ==
    [][\A r \in 1..Len(runs) :
          (/\ runs[r].pc = "update"
           /\ Len(runs') = Len(runs)
           /\ runs'[r].end = "updated"
           /\ title'[runs[r].session] = runs[r].newTitle) =>
              ~ \E later \in (r + 1)..Len(runs) :
                    /\ runs[later].session = runs[r].session
                    /\ runs[later].end = "updated"
                    /\ title[runs[r].session] # runs[r].newTitle]_vars

(***************************************************************************)
(* Claims about extractSmartContext and formatContextForTitle (checked     *)
(* under SpecContext)                                                      *)
(***************************************************************************)
Extracted == extraction.pc \in {"noTurns", "extracted", "formatted"}

\* the positions of the user messages of a history, in order
UserPositions(messages) == {k \in 1..Len(messages) : messages[k].role = "user"}
UserMessages(messages) == SelectSeq(messages, LAMBDA msg : msg.role = "user")

\* C12: extractSmartContext emits exactly one turn per user message, in the order
\* of the user messages, also for a user message that got no non-empty assistant
\* reply (trailing, or followed directly by another user message).
C12_OneTurnPerUserMessage ==
    Extracted =>
        LET users == UserMessages(extraction.messages) IN
        /\ Len(extraction.turns) = Len(users)
        /\ \A i \in 1..Len(users) : extraction.turns[i].user.time = users[i].time

\* the message has a text part that is not synthetic and holds more than white space
HasText(msg) ==
    \E p \in 1..Len(msg.parts) :
        /\ msg.parts[p].type = "text"
        /\ ~msg.parts[p].synthetic
        /\ \E c \in 1..Len(msg.parts[p].text) : msg.parts[p].text[c] \notin WhiteSpace

\* an assistant message with text stands after the user message at position u and
\* before the next user message (or the end of the history)
Replied(messages, u) ==
    \E k \in (u + 1)..Len(messages) :
        /\ messages[k].role = "assistant"
        /\ HasText(messages[k])
        /\ \A j \in (u + 1)..k : messages[j].role # "user"

\* C13: a turn of the output carries an assistant summary if and only if an
\* assistant message with non-empty non-synthetic text occurs between its user
\* message and the next user message (or the end of the history); the history
\* user, assistant, user gives two turns, the first with a summary, the last without.
C13_SummaryIffAssistantText ==
    Extracted =>
        \A i \in 1..Len(extraction.turns) :
            LET u == extraction.turns[i].user.time IN
            /\ u \in UserPositions(extraction.messages)
            /\ extraction.turns[i].assistant.defined <=> Replied(extraction.messages, u)

C13_Witness ==
    /\ extraction.pc = "extracted"
    /\ Len(extraction.messages) = 4
    /\ [k \in 1..4 |-> extraction.messages[k].role] = <<"user", "assistant", "assistant", "user">>
    /\ ~HasText(extraction.messages[2])
    /\ HasText(extraction.messages[3])
    /\ Len(extraction.turns) = 2
    /\ extraction.turns[1].assistant.defined
    /\ ~extraction.turns[2].assistant.defined

\* how often the literal occurs in the string
Occurrences(s, lit) == Cardinality({i \in 1..Len(s) : MatchAt(s, i, lit)})

\* the turns formatContextForTitle has to render: the last min(len, maxTurns)
RenderedTurns ==
    LET len == Len(extraction.turns)
        k == IF len < extraction.maxTurns THEN len ELSE extraction.maxTurns
    IN  SubSeq(extraction.turns, len - k + 1, len)

\* no text of the turn holds the literal "User: "
FreeOfUserLabel(turn) ==
    /\ Occurrences(turn.user.text, UserLabel) = 0
    /\ turn.assistant.defined =>
           /\ Occurrences(turn.assistant.first, UserLabel) = 0
           /\ Occurrences(turn.assistant.last, UserLabel) = 0

\* the lines of the context that begin with "User: "
UserLines ==
    SelectSeq(SplitOn(extraction.context, "\n"), LAMBDA line : MatchAt(line, 1, UserLabel))

\* C14 as stated: for every sequence of turns and every positive maxTurns the
\* output of formatContextForTitle holds at most maxTurns occurrences of the
\* literal "User: ".
C14_AtMostMaxTurnsUserLabels ==
    (extraction.pc = "formatted" /\ extraction.maxTurns > 0) =>
        Occurrences(extraction.context, UserLabel) <= extraction.maxTurns

\* C14: for every positive maxTurns, formatContextForTitle renders exactly the
\* last min(len(turns), maxTurns) turns in chronological order, one line that
\* begins with "User: " for each; when no text of these turns holds the literal
\* "User: " itself, the output holds exactly that many, so at most maxTurns,
\* occurrences of it.
C14_RendersLastTurns ==
    (extraction.pc = "formatted" /\ extraction.maxTurns > 0) =>
        /\ Len(RenderedTurns) <= extraction.maxTurns
        /\ UserLines = [i \in 1..Len(RenderedTurns) |->
                           UserLabel \o Truncate(RenderedTurns[i].user.text,
                                                 extraction.maxCharsPerMessage)]
        /\ (\A i \in 1..Len(RenderedTurns) : FreeOfUserLabel(RenderedTurns[i])) =>
               Occurrences(extraction.context, UserLabel) = Len(RenderedTurns)

C14_Witness ==
    /\ extraction.pc = "formatted"
    /\ extraction.maxTurns = 1
    /\ Len(extraction.turns) = 2
    /\ FreeOfUserLabel(extraction.turns[2])
    /\ ~FreeOfUserLabel(extraction.turns[1])
    /\ Occurrences(extraction.context, UserLabel) = 1

\* the positions of the assistant messages with text that stand after the user
\* message at position u and before the next user message (or the end)
OwnReplies(messages, u) ==
    {k \in (u + 1)..Len(messages) :
        /\ messages[k].role = "assistant"
        /\ HasText(messages[k])
        /\ \A j \in (u + 1)..k : messages[j].role # "user"}

Earliest(positions) == CHOOSE k \in positions : \A j \in positions : k <= j
Latest(positions) == CHOOSE k \in positions : \A j \in positions : k >= j

\* C29: for every turn with an assistant summary, first is the text of the
\* earliest assistant message with text between the turn's user message and the
\* next user message, last is the text of the latest one, and time is the
\* creation time of the earliest; with exactly one such message first equals
\* last. No text or time of a summary comes from a message of another turn.
C29_SummaryFromOwnReplies ==
    Extracted =>
        \A i \in 1..Len(extraction.turns) :
            LET turn == extraction.turns[i]
                own == OwnReplies(extraction.messages, turn.user.time)
            IN  turn.assistant.defined =>
                    /\ own # {}
                    /\ turn.assistant.first =
                           ExtractTextOnly(extraction.messages[Earliest(own)].parts)
                    /\ turn.assistant.last =
                           ExtractTextOnly(extraction.messages[Latest(own)].parts)
                    /\ turn.assistant.time = extraction.messages[Earliest(own)].time
                    /\ Cardinality(own) = 1 => turn.assistant.first = turn.assistant.last

\* a turn whose summary comes from two replies with different texts, followed
\* by a turn without reply, which gets no summary from the replies before it
C29_Witness ==
    /\ extraction.pc = "extracted"
    /\ [k \in 1..Len(extraction.messages) |-> extraction.messages[k].role] =
           <<"user", "assistant", "assistant", "user">>
    /\ Len(extraction.turns) = 2
    /\ extraction.turns[1].assistant.defined
    /\ extraction.turns[1].assistant.first = <<"r">>
    /\ extraction.turns[1].assistant.last = <<"r", "e", "p", "l", "y">>
    /\ extraction.turns[1].assistant.time = 2
    /\ ~extraction.turns[2].assistant.defined

(***************************************************************************)
(* Claims about truncate (checked under SpecTruncate)                      *)
(***************************************************************************)
\* C15: truncate(text, n) returns text unchanged when len(text) <= n; otherwise
\* it returns the first n characters of text followed by the 3-character
\* ellipsis marker, a result of length n + 3.
C15_TruncateResult ==
    truncation.pc = "returned" =>
        IF Len(truncation.text) <= truncation.maxLength
        THEN truncation.result = truncation.text
        ELSE /\ Len(truncation.result) = truncation.maxLength + 3
             /\ \A i \in 1..truncation.maxLength : truncation.result[i] = truncation.text[i]
             /\ \A i \in 1..3 : truncation.result[truncation.maxLength + i] = "."

C15_Witness ==
    /\ truncation.pc = "returned"
    /\ truncation.text = <<"a", "b", "a", "b", "a">>
    /\ truncation.maxLength = 2
    /\ truncation.result = <<"a", "b", ".", ".", ".">>

(***************************************************************************)
(* Claims about cleanTitle (checked under SpecSanitize)                    *)
(***************************************************************************)
\* the text without its paired blocks: each block from a start marker through
\* the nearest end marker after it, the markers included, and nothing else
RECURSIVE WithoutBlocks(_)
WithoutBlocks(s) ==
    LET closes(i) == {j \in (i + Len(ThinkOpen))..Len(s) : MatchAt(s, j, ThinkClose)}
        opens == {i \in 1..Len(s) : MatchAt(s, i, ThinkOpen) /\ closes(i) # {}}
    IN  IF opens = {}
        THEN s
        ELSE LET i == Least(opens)
                 j == Least(closes(i))
             IN  SubSeq(s, 1, i - 1) \o WithoutBlocks(SubSeq(s, j + Len(ThinkClose), Len(s)))

\* the first line whose trimmed length is not zero, trimmed; "Untitled" if none
FirstLineOrUntitled(s) ==
    LET split == SplitOn(s, "\n")
        nonEmpty == {i \in 1..Len(split) : Len(Trim(split[i])) > 0}
    IN  IF nonEmpty = {} THEN Untitled ELSE Trim(split[Least(nonEmpty)])

\* C16: cleanTitle removes every paired <think>...</think> block before the line
\* selection and then returns the first line whose trimmed length is non-zero,
\* or "Untitled" when there is none (here for selected lines that need no cut).
C16_BlocksRemovedThenFirstLine ==
    LET line == FirstLineOrUntitled(WithoutBlocks(sanitization.raw)) IN
    (sanitization.pc = "returned" /\ Len(line) <= 100) => sanitization.title = line

\* C17: the title cleanTitle returns is non-empty and at most 100 characters
\* long: a selected line longer than 100 characters is cut to its first 97
\* characters plus the ellipsis marker, a line of at most 100 characters is
\* returned unchanged.
C17_TitleLengthBounded ==
    sanitization.pc = "returned" =>
        LET line == FirstLineOrUntitled(RemoveThink(sanitization.raw)) IN
        /\ Len(sanitization.title) >= 1
        /\ Len(sanitization.title) <= 100
        /\ Len(line) > 100 =>
               /\ Len(sanitization.title) = 100
               /\ SubSeq(sanitization.title, 1, 97) = SubSeq(line, 1, 97)
               /\ SubSeq(sanitization.title, 98, 100) = <<".", ".", ".">>
        /\ Len(line) <= 100 => sanitization.title = line

C17_Witness ==
    /\ sanitization.pc = "returned"
    /\ Len(FirstLineOrUntitled(RemoveThink(sanitization.raw))) = 101
    /\ Len(sanitization.title) = 100
    /\ sanitization.title[100] = "."
    /\ sanitization.title[97] = "y"

(***************************************************************************)
(* Claims about selectModel (checked under SpecSelect)                     *)
(***************************************************************************)
SelTerminal == sel.pc \in {"returned", "thrown"}

\* positions of the logged calls of one kind
AttemptsOf(kind) == {k \in 1..Len(sel.attempts) : sel.attempts[k].kind = kind}

\* the configured model was resolved, successfully
ConfigResolvedOk ==
    \E k \in AttemptsOf("config") : sel.attempts[k].status = "ok"

\* C4: when a well-formed configured model string is present and its resolution
\* succeeds, selectModel returns source = config with that provider/model and no
\* failedModel, without having queried the provider registry and without any
\* fallback attempt.
C4_ConfigSuccessReturnsConfig ==
    ConfigResolvedOk =>
        /\ sel.pc = "returned"
        /\ sel.result.source = "config"
        /\ sel.result.modelInfo =
               ModelInfo(Split(configModel.value)[1], Split(configModel.value)[2])
        /\ ~sel.result.failedModel.defined
        /\ sel.listStatus = "none"
        /\ AttemptsOf("fallback") = {}
        /\ Len(sel.attempts) = 1

C4_Witness ==
    /\ ConfigResolvedOk
    /\ sel.pc = "returned"
    /\ configModel.value = <<"a", Sep, "a">>
    /\ registry # {}

\* the head of the string up to its first separator, and everything after it
BeforeFirstSep(s) == Split(s)[1]
AfterFirstSep(s) == Join(Tail(Split(s)))

\* C5: a configured model string with more than two separator-delimited segments
\* is accepted: once the auth provider is loaded, resolution of the configured
\* model is attempted with providerID = the segment before the first separator
\* and modelID = everything after it.
C5_ThreePartConfigAttempted ==
    (/\ configModel.defined
     /\ Len(Split(configModel.value)) > 2
     /\ sel.importStatus = "ok") =>
        /\ Len(sel.attempts) >= 1
        /\ sel.attempts[1].kind = "config"
        /\ sel.attempts[1].providerID = BeforeFirstSep(configModel.value)
        /\ sel.attempts[1].modelID = AfterFirstSep(configModel.value)

NoSeparator(cfg) == cfg.defined /\ \A i \in 1..Len(cfg.value) : cfg.value[i] # Sep

\* C6: a configured model string with no separator never makes selectModel fail
\* by itself: no configured-model resolution is attempted, selection goes on to
\* the provider listing and the fallback chain as for an absent model, and a
\* result carries no failedModel.
C6_NoSeparatorProceedsToFallback ==
    NoSeparator(configModel) =>
        /\ AttemptsOf("config") = {}
        /\ ~sel.failedModelInfo.defined
        /\ sel.importStatus = "ok" => sel.listStatus # "none"
        /\ sel.pc = "returned" =>
               sel.result.source = "fallback" /\ ~sel.result.failedModel.defined
        /\ sel.pc = "thrown" =>
               \/ sel.importStatus = "fail"
               \/ sel.listStatus = "fail"
               \/ \A i \in 1..Len(PROVIDER_PRIORITY) :
                      \/ PROVIDER_PRIORITY[i] \notin registry
                      \/ \E k \in AttemptsOf("fallback") :
                             /\ sel.attempts[k].providerID = Str(PROVIDER_PRIORITY[i])
                             /\ sel.attempts[k].status = "fail"

C6_Witness ==
    /\ NoSeparator(configModel)
    /\ Len(configModel.value) > 0
    /\ sel.pc = "returned"
    /\ sel.result.source = "fallback"

\* the logged fallback calls, in call order
FallbackCalls == SelectSeq(sel.attempts, LAMBDA a : a.kind = "fallback")

InRegistry(p) == p \in registry

\* position of provider p in the priority list
PriorityIndex(p) == CHOOSE i \in 1..Len(PROVIDER_PRIORITY) : PROVIDER_PRIORITY[i] = p

C8_AttemptsSequential ==
    /\ Cardinality({k \in 1..Len(sel.attempts) : sel.attempts[k].status = "pending"}) <= 1
    /\ \A k \in 1..(Len(sel.attempts) - 1) : sel.attempts[k].status = "fail"

C8_Witness ==
    /\ Len(sel.attempts) = 3
    /\ sel.attempts[3].status = "pending"

\* C9 as stated: whenever the registry holds no authenticated provider, a
\* finished selectModel call has failed with the "no usable model" error,
\* whatever the configured model string (read for calls in which loading the
\* auth provider and the listing itself did not fail).
C9_EmptyRegistryAlwaysFails ==
    (registry = {} /\ SelTerminal /\ sel.importStatus = "ok" /\ sel.listStatus # "fail") =>
        sel.pc = "thrown" /\ sel.error = "exhausted"

\* C9 amended: whenever selectModel has queried the registry and it reported no
\* authenticated provider, the call fails with the "no usable model" error,
\* without any fallback attempt; the registry is queried exactly when the
\* configured model was absent, malformed or failed to resolve.
C9_EmptyListingFails ==
    /\ (sel.listStatus = "ok" /\ registry = {}) =>
           /\ sel.pc = "thrown"
           /\ sel.error = "exhausted"
           /\ AttemptsOf("fallback") = {}
    /\ (SelTerminal /\ sel.importStatus = "ok") =>
           (sel.listStatus = "none" <=> ConfigResolvedOk)

C9_Witness ==
    /\ registry = {}
    /\ sel.pc = "thrown"
    /\ sel.error = "exhausted"
    /\ \E k \in AttemptsOf("config") : sel.attempts[k].status = "fail"

\* the configured model was absent, malformed or failed to resolve
ConfigUnusable == ~ConfigResolvedOk

\* every provider of the priority list was skipped (not authenticated, or without
\* a fallback model) or was tried and failed
AllCandidatesSkippedOrFailed ==
    \A i \in 1..Len(PROVIDER_PRIORITY) :
        \/ PROVIDER_PRIORITY[i] \notin registry
        \/ PROVIDER_PRIORITY[i] \notin DOMAIN FALLBACK_MODELS
        \/ \E k \in AttemptsOf("fallback") :
               /\ sel.attempts[k].providerID = Str(PROVIDER_PRIORITY[i])
               /\ sel.attempts[k].status = "fail"

\* C10 as stated: a finished call has failed if and only if the configured model
\* was unusable and every fallback candidate was skipped or failed; no other
\* collaborator failure, such as one of the provider listing, makes it fail
\* (read for calls in which the auth provider was loaded).
C10_FailsOnlyByExhaustion ==
    (SelTerminal /\ sel.importStatus = "ok") =>
        /\ sel.pc = "thrown" <=> (ConfigUnusable /\ AllCandidatesSkippedOrFailed)
        /\ sel.pc = "thrown" => sel.error = "exhausted"

\* C10 amended: a finished call has failed if and only if loading the auth
\* provider failed, or the configured model was unusable and either the provider
\* listing failed or every fallback candidate was skipped or failed.
C10_FailsByLoadListingOrExhaustion ==
    SelTerminal =>
        (sel.pc = "thrown" <=>
            \/ sel.importStatus = "fail"
            \/ /\ sel.importStatus = "ok"
               /\ ConfigUnusable
               /\ \/ sel.listStatus = "fail"
                  \/ sel.listStatus = "ok" /\ AllCandidatesSkippedOrFailed)

C10_Witness ==
    /\ sel.pc = "thrown"
    /\ sel.listStatus = "fail"
    /\ registry # {}
    /\ ~AllCandidatesSkippedOrFailed

\* the configured-model resolution was attempted and failed
ConfigAttemptFailed ==
    \E k \in AttemptsOf("config") : sel.attempts[k].status = "fail"

\* C11: in every result of selectModel, failedModel is present if and only if a
\* well-formed configured model was attempted, its resolution failed and a
\* fallback candidate then succeeded; it then equals the configured
\* (providerID, modelID) and the source is fallback; a result with source config
\* carries no failedModel.
C11_FailedModelIffConfigFailedThenFallback ==
    sel.pc = "returned" =>
        /\ sel.result.failedModel.defined <=>
               /\ ConfigAttemptFailed
               /\ \E k \in AttemptsOf("fallback") : sel.attempts[k].status = "ok"
        /\ sel.result.failedModel.defined =>
               /\ sel.result.source = "fallback"
               /\ Len(Split(configModel.value)) = 2
               /\ sel.result.failedModel =
                      ModelInfo(Split(configModel.value)[1], Split(configModel.value)[2])
        /\ sel.result.source = "config" => ~sel.result.failedModel.defined

C11_Witness ==
    /\ sel.pc = "returned"
    /\ sel.result.failedModel = ModelInfo(<<"a">>, <<"a", "a">>)
    /\ sel.result.modelInfo.providerID = Str("google")
    /\ Len(sel.attempts) = 3

\* C21: an authenticated nvidia provider is an eligible fallback candidate: when
\* the configured model is unusable, the listing reports nvidia as authenticated
\* and no other provider has resolved, a finished call has succeeded with source
\* fallback and the model nvidia / nvidia/nvidia-nemotron-nano-9b-v2.
C21_NvidiaIsFallbackCandidate ==
    (/\ SelTerminal
     /\ sel.listStatus = "ok"
     /\ "nvidia" \in registry
     /\ \A k \in 1..Len(sel.attempts) :
            sel.attempts[k].status = "ok" => sel.attempts[k].providerID = Str("nvidia")) =>
        /\ sel.pc = "returned"
        /\ sel.result.source = "fallback"
        /\ sel.result.modelInfo =
               ModelInfo(Str("nvidia"), Str("nvidia/nvidia-nemotron-nano-9b-v2"))

\* each call is logged at most once: one configured-model attempt at most, made
\* first, and the fallback attempts at strictly later entries of the priority list
AttemptsBounded ==
    /\ Cardinality(AttemptsOf("config")) <= 1
    /\ AttemptsOf("config") \subseteq {1}
    /\ \A k \in AttemptsOf("fallback") :
           \E i \in 1..Len(PROVIDER_PRIORITY) :
               /\ sel.attempts[k].providerID = Str(PROVIDER_PRIORITY[i])
               /\ \A j \in AttemptsOf("fallback") :
                      j < k => \E h \in 1..(i - 1) :
                                   sel.attempts[j].providerID = Str(PROVIDER_PRIORITY[h])
    /\ Len(sel.attempts) <= 1 + Len(PROVIDER_PRIORITY)

\* C22 as stated: every selectModel call terminates, in Succeeded or in
\* Exhausted, after at most one configured-model attempt plus at most one attempt
\* per entry of the priority list, no candidate retried (read for calls in which
\* loading the auth provider did not fail).
C22_TerminatesSucceededOrExhausted ==
    /\ <>SelTerminal
    /\ []AttemptsBounded
    /\ []((SelTerminal /\ sel.importStatus = "ok") =>
              (sel.pc = "returned" \/ sel.error = "exhausted"))

\* C22 amended: every selectModel call terminates, in Succeeded, in Exhausted or
\* with the failure of loading the auth provider or of the provider listing,
\* after at most one configured-model attempt plus at most one attempt per entry
\* of the priority list, no candidate retried.
C22_TerminatesWithBoundedAttempts ==
    /\ <>SelTerminal
    /\ []AttemptsBounded
    /\ [](SelTerminal =>
              \/ sel.pc = "returned" /\ sel.result.source \in {"config", "fallback"}
              \/ sel.pc = "thrown" /\ sel.error \in {"exhausted", "import", "listProviders"})

C22_Witness ==
    /\ sel.pc = "thrown"
    /\ sel.error = "exhausted"
    /\ Len(sel.attempts) = 3
    /\ AttemptsOf("config") = {1}

====
